---- MODULE Spec2Model ----
(***************************************************************************)
(* Gainr: the retrying market-data client (lib/api), the batch price       *)
(* resolution of the portfolio tracker and the price query of the          *)
(* investment calculator.                                                  *)
(***************************************************************************)
EXTENDS Integers, Sequences, FiniteSets, TLC

(***************************************************************************)
(* Bounds of the model.                                                    *)
(***************************************************************************)
\* largest `attempts` argument a caller passes to fetchWithRetry
MaxAttempts == 7
\* largest number of positions held by the tracker
MaxPositions == 3
\* largest number of investments added through the form
MaxAdds == 2
\* longest price series the market_chart endpoint answers with
MaxSeries == 3
\* largest number of rows inserted into portfolio_items
MaxRows == 2

(***************************************************************************)
(* Program constants.                                                      *)
(***************************************************************************)
DefaultAttempts == 3
BackoffBase == 1000
BackoffCap == 30000
RateLimitStatus == 429
QueryRetry == 3
\* calculateRiskScore
baseScore == 70
MinScore == 0
MaxScore == 100
DailyChangeLimit == 10
MarketCapLimit == 1000000000

VARIABLES
    calls,      \* activations of fetchWithRetry, one per caller slot
    portfolio,  \* PortfolioTracker: the positions (useState)
    batch,      \* PortfolioTracker: the running price query (queryFn)
    iq,         \* InvestmentCalculator: the price query (useQuery)
    hist,       \* an invocation of getCryptoPriceHistory
    serial,     \* the id sequence of the portfolio_items table
    view,       \* PortfolioTracker: the figures of the last render
    snap,       \* a market snapshot with its risk assessment and its news
    server      \* the portfolio_items table and the last answer of a route

vars == <<calls, portfolio, batch, iq, hist, serial, view, snap, server>>

Min(a, b) == IF a < b THEN a ELSE b

RECURSIVE Pow2(_)
Pow2(n) == IF n <= 0 THEN 1 ELSE 2 * Pow2(n - 1)

(***************************************************************************)
(* JSON values, as far as the client looks into them.                      *)
(***************************************************************************)
JV(t, n, s, a) == [t |-> t, n |-> n, s |-> s, a |-> a]
Undefined == JV("undefined", 0, "", <<>>)
Null == JV("null", 0, "", <<>>)
Num(n) == JV("number", n, "", <<>>)
Str(s) == JV("string", 0, s, <<>>)
Obj == JV("object", 0, "", <<>>)
Arr(a) == JV("array", 0, "", a)

\* JavaScript truthiness of a JSON value (the operand of `!`)
Truthy(v) ==
    CASE v.t = "undefined" -> FALSE
      [] v.t = "null" -> FALSE
      [] v.t = "number" -> v.n # 0
      [] v.t = "string" -> v.s # ""
      [] OTHER -> TRUE

\* Array.isArray
IsArray(v) == v.t = "array"

(***************************************************************************)
(* Errors and responses.                                                   *)
(***************************************************************************)
\* a thrown value: an Error object with its message, or another value
Thrown(isError, text, status, statusText) ==
    [isError |-> isError, text |-> text, status |-> status, statusText |-> statusText]
Err(text, status, statusText) == Thrown(TRUE, text, status, statusText)

\* null, the initial lastError
NoError == Thrown(FALSE, "", 0, "")
MaxRetryError == Err("Maximum retry attempts reached", 0, "")
HttpError(status, statusText) == Err("HTTP error! status:", status, statusText)
InvalidPriceError == Err("Invalid price data received", 0, "")
InvalidHistoryError == Err("Invalid price history data received", 0, "")

\* what fetch() rejects with: a TypeError of the runtime
NetworkErrors == {Err("Failed to fetch", 0, "")}

Statuses == {200, 429, 500}

StatusText(status) ==
    CASE status = 200 -> "OK"
      [] status = 429 -> "Too Many Requests"
      [] status = 500 -> "Internal Server Error"
      [] OTHER -> ""

\* the body of a response: the asset key it holds with its usd field (the
\* simple/price endpoint) and the prices field (the market_chart endpoint)
Body(key, usd, prices) == [key |-> key, usd |-> usd, prices |-> prices]
NoBody == Body("", Undefined, Undefined)

Response(status, body, seq) ==
    [status |-> status, statusText |-> StatusText(status), body |-> body, seq |-> seq]
NoResponse == Response(0, NoBody, 0)

\* Response.ok
Ok(r) == r.status >= 200 /\ r.status <= 299

(***************************************************************************)
(* fetchWithRetry                                                          *)
(***************************************************************************)
CallIds == 1..MaxPositions

IdleCall ==
    [pc |-> "idle", endpoint |-> "", id |-> "", attempts |-> 0, i |-> 0,
     lastError |-> NoError, requests |-> 0, waits |-> <<>>,
     result |-> NoResponse, error |-> NoError,
     last |-> "none", observed |-> NoError]

\* Math.min(1000 * Math.pow(2, i), 30000)
WaitTimeOff(i) == Min(BackoffBase * Pow2(i + 1), BackoffCap)
WaitTime(i) == Min(BackoffBase * Pow2(i), BackoffCap)

\* throw lastError || new Error('Maximum retry attempts reached')
ExhaustedErrorGenericAlways(c) == MaxRetryError
ExhaustedError(c) == IF c.lastError # NoError THEN c.lastError ELSE MaxRetryError

LoopHeadInclusive(c) ==
    IF c.i <= c.attempts
    THEN [c EXCEPT !.pc = "awaitFetch", !.requests = @ + 1]
    ELSE [c EXCEPT !.pc = "failed", !.error = ExhaustedError(c)]

\* the loop test of the for statement, then fetch(url) or the final throw
LoopHead(c) ==
    IF c.i < c.attempts
    THEN [c EXCEPT !.pc = "awaitFetch", !.requests = @ + 1]
    ELSE [c EXCEPT !.pc = "failed", !.error = ExhaustedError(c)]

\* a call fetchWithRetry(url, attempts), up to its first await
StartCall(endpoint, id, attempts) ==
    LoopHead([IdleCall EXCEPT !.pc = "loop", !.endpoint = endpoint, !.id = id,
                              !.attempts = attempts])

\* error instanceof Error ? error : new Error('Network request failed')
ToError(e) == IF e.isError THEN e ELSE Err("Network request failed", 0, "")

\* the catch block: record the error, rethrow on the last attempt, else wait
CatchFirstError(c, e) ==
    LET rec == [c EXCEPT !.lastError = IF @ = NoError THEN ToError(e) ELSE @]
    IN  IF c.i = c.attempts - 1
        THEN [rec EXCEPT !.pc = "failed", !.error = rec.lastError]
        ELSE [rec EXCEPT !.pc = "delayCatch", !.waits = Append(@, WaitTime(c.i))]
Catch(c, e) ==
    LET rec == [c EXCEPT !.lastError = ToError(e)]
    IN  IF c.i = c.attempts - 1
        THEN [rec EXCEPT !.pc = "failed", !.error = rec.lastError]
        ELSE [rec EXCEPT !.pc = "delayCatch", !.waits = Append(@, WaitTime(c.i))]

\* the rate-limit branch: wait, then continue
RateLimitedAsFailure(c, r) == Catch(c, HttpError(r.status, r.statusText))
RateLimited(c, r) ==
    [c EXCEPT !.pc = "delay429", !.waits = Append(@, WaitTime(c.i))]

\* the code after `await fetch(url)` for a response r
OnResponse(c, r) ==
    LET seen == [c EXCEPT !.result = r, !.last = "response",
                          !.observed = IF r.status = RateLimitStatus \/ Ok(r) THEN @
                                       ELSE HttpError(r.status, r.statusText)]
    IN  IF r.status = RateLimitStatus THEN RateLimited(seen, r)
        ELSE IF ~Ok(r) THEN Catch(seen, HttpError(r.status, r.statusText))
        ELSE [seen EXCEPT !.pc = "returned"]

\* the bodies the upstream may answer a request with
Assets == {"bitcoin", "ethereum", "ripple"}
UsdValues == {Undefined, Num(0), Num(10), Str("12")}
\* the elements of a price series: [timestamp, price], or an array too short
PricePoints == {<<1, 10>>, <<2, 30>>, <<3, 20>>, <<4>>}
RECURSIVE SeqsUpTo(_, _)
SeqsUpTo(S, n) ==
    IF n = 0 THEN {<<>>}
    ELSE LET shorter == SeqsUpTo(S, n - 1)
         IN  shorter \cup {Append(q, x) : q \in shorter, x \in S}
SeriesValues ==
    {Undefined, Null, Num(5), Str("n/a"), Obj} \cup
    {Arr(q) : q \in SeqsUpTo(PricePoints, MaxSeries)}
Bodies(endpoint, id) ==
    IF endpoint = "price"
    THEN {Body(id, u, Undefined) : u \in UsdValues} \cup {Body("", Undefined, Undefined)}
    ELSE IF endpoint = "history"
    THEN {Body("", Undefined, v) : v \in SeriesValues}
    ELSE {NoBody}

\* delay(ms): a promise that a timer resolves; awaiting it suspends the call
\* that awaits it and no other
SuspendsAll(waiting, other) == TRUE
Suspends(waiting, other) == waiting = other

Delays == {"delay429", "delayCatch"}

\* the event loop can run the continuation of call k
CanRun(k) ==
    \A w \in CallIds \ {k} : calls[w].pc \in Delays => ~Suspends(w, k)

ResponseArrives(k) ==
    /\ calls[k].pc = "awaitFetch"
    /\ CanRun(k)
    /\ \E status \in Statuses :
         \E body \in (IF status = 200 THEN Bodies(calls[k].endpoint, calls[k].id)
                      ELSE {NoBody}) :
            calls' = [calls EXCEPT
                        ![k] = OnResponse(@, Response(status, body, @.requests))]

NetworkFails(k) ==
    /\ calls[k].pc = "awaitFetch"
    /\ CanRun(k)
    /\ \E e \in NetworkErrors :
         calls' = [calls EXCEPT
                     ![k] = Catch([@ EXCEPT !.last = "network", !.observed = e], e)]

\* the timer of delay(waitTime) fires: i++ and the next iteration, whose
\* `response` is a fresh binding
DelayElapsed(k) ==
    /\ calls[k].pc \in Delays
    /\ CanRun(k)
    /\ calls' = [calls EXCEPT
                  ![k] = LoopHead([@ EXCEPT !.i = @ + 1, !.result = NoResponse,
                                            !.last = "none"])]

(***************************************************************************)
(* getCryptoPrice                                                          *)
(***************************************************************************)
Fulfilled(v) == [state |-> "fulfilled", value |-> v, error |-> NoError]
Rejected(e) == [state |-> "rejected", value |-> Undefined, error |-> e]
Pending == [state |-> "pending", value |-> Undefined, error |-> NoError]

\* data[cryptoId]?.usd
UsdOf(body, cryptoId) == IF body.key = cryptoId THEN body.usd ELSE Undefined

\* getCryptoPrice(cryptoId) once its fetchWithRetry call c has ended
GetCryptoPrice(cryptoId, c) ==
    IF c.pc = "failed" THEN Rejected(c.error)
    ELSE IF ~Truthy(UsdOf(c.result.body, cryptoId)) THEN Rejected(InvalidPriceError)
    ELSE Fulfilled(UsdOf(c.result.body, cryptoId))

Ended(c) == c.pc \in {"returned", "failed"}

(***************************************************************************)
(* The components before their first operation.                            *)
(***************************************************************************)
Symbols == {"BTC", "ETH", "XRP"}
Keys == Assets \cup Symbols

\* the prices object of a resolution: no key set
NoPrices == [k \in Keys |-> Undefined]

IdleBatch ==
    [status |-> "idle", ids |-> <<>>, settled |-> {}, prices |-> NoPrices,
     toasts |-> [k \in Keys |-> 0], lookups |-> <<>>, data |-> NoPrices,
     outcome |-> [k \in CallIds |-> Pending]]

HistoryFulfilled(points) == [state |-> "fulfilled", points |-> points, error |-> NoError]
HistoryRejected(e) == [state |-> "rejected", points |-> <<>>, error |-> e]

IdleHistory ==
    [status |-> "idle", cryptoId |-> "", days |-> 0,
     outcome |-> HistoryRejected(NoError)]

IdleQuery ==
    [status |-> "idle", selectedCrypto |-> "", failureCount |-> 0,
     outcome |-> Pending, toasts |-> 0,
     fnCalls |-> 0, requestsBefore |-> 0, requestsAtRejection |-> 0]

(***************************************************************************)
(* PortfolioTracker: the figures derived from the positions and prices.    *)
(* The quantities, cost bases and prices of the model are integers; a      *)
(* quotient is kept as a reduced fraction, or as NaN or an infinity.       *)
(***************************************************************************)
Abs(n) == IF n < 0 THEN 0 - n ELSE n
Sign(n) == IF n < 0 THEN 0 - 1 ELSE IF n > 0 THEN 1 ELSE 0

RECURSIVE GCD(_, _)
GCD(a, b) == IF b = 0 THEN a ELSE GCD(b, a % b)

\* the number n/d, d # 0
Ratio(n, d) ==
    LET g == GCD(Abs(n), Abs(d))
    IN  [k |-> "finite", n |-> Sign(d) * (n \div g), d |-> Abs(d) \div g]
NaN == [k |-> "NaN", n |-> 0, d |-> 1]
Infinity(sign) == [k |-> "Infinity", n |-> sign, d |-> 1]
Zero == Ratio(0, 1)

\* a / b
Divide(a, b) ==
    IF b # 0 THEN Ratio(a, b)
    ELSE IF a = 0 THEN NaN ELSE Infinity(Sign(a))

\* x * 100
Times100(x) == IF x.k = "finite" THEN Ratio(100 * x.n, x.d) ELSE x

\* prices?.[item.cryptoId] ?? 0, as the number the product uses
ToNumber(v) ==
    CASE v.t = "number" -> v.n
      [] v.t = "string" /\ v.s = "12" -> 12
      [] OTHER -> 0
CurrentPrice(prices, cryptoId) ==
    IF prices[cryptoId] = Undefined THEN 0 ELSE ToNumber(prices[cryptoId])

RECURSIVE totalValueOncePerAsset(_, _)
totalValueOncePerAsset(items, prices) ==
    IF items = <<>> THEN 0
    ELSE LET front == SubSeq(items, 1, Len(items) - 1)
             x == items[Len(items)]
         IN  totalValueOncePerAsset(front, prices)
             + (IF \E n \in 1..Len(front) : front[n].cryptoId = x.cryptoId
                THEN 0 ELSE CurrentPrice(prices, x.cryptoId) * x.amount)

RECURSIVE totalValue(_, _)
\* portfolio.reduce((sum, item) => sum + currentPrice * item.amount, 0)
totalValue(items, prices) ==
    IF items = <<>> THEN 0
    ELSE totalValue(SubSeq(items, 1, Len(items) - 1), prices)
         + CurrentPrice(prices, items[Len(items)].cryptoId) * items[Len(items)].amount

RECURSIVE totalInvestment(_)
\* portfolio.reduce((sum, item) => sum + Number(item.initialInvestment), 0)
totalInvestment(items) ==
    IF items = <<>> THEN 0
    ELSE totalInvestment(SubSeq(items, 1, Len(items) - 1))
         + items[Len(items)].initialInvestment

\* totalInvestment > 0 ? ((totalValue - totalInvestment) / totalInvestment) * 100 : 0
profitPercentageUnguarded(value, investment) ==
    Times100(Divide(value - investment, investment))
profitPercentage(value, investment) ==
    IF investment > 0 THEN Times100(Divide(value - investment, investment)) ELSE Zero

\* the figures of one table row
RowSwapped(item, prices) ==
    LET currentPrice == CurrentPrice(prices, item.cryptoId)
        purchasePrice == Divide(item.amount, item.initialInvestment)
        currentValue == currentPrice * item.amount
        profit == item.initialInvestment - currentValue
    IN  [id |-> item.id, currentPrice |-> currentPrice, purchasePrice |-> purchasePrice,
         currentValue |-> currentValue, profit |-> profit,
         profitPercentage |-> Times100(Divide(profit, item.initialInvestment))]
Row(item, prices) ==
    LET currentPrice == CurrentPrice(prices, item.cryptoId)
        purchasePrice == Divide(item.initialInvestment, item.amount)
        currentValue == currentPrice * item.amount
        profit == currentValue - item.initialInvestment
    IN  [id |-> item.id, currentPrice |-> currentPrice, purchasePrice |-> purchasePrice,
         currentValue |-> currentValue, profit |-> profit,
         profitPercentage |-> Times100(Divide(profit, item.initialInvestment))]

\* one render of the component: the three totals, the percentage and the rows
Render(items, prices, toast) ==
    LET value == totalValue(items, prices)
        investment == totalInvestment(items)
    IN  [totalValue |-> value,
         totalInvestment |-> investment,
         totalProfit |-> value - investment,
         profitPercentage |-> profitPercentage(value, investment),
         rows |-> [n \in 1..Len(items) |-> Row(items[n], prices)],
         toast |-> toast]

(***************************************************************************)
(* Numbers of a market snapshot.  A percentage is kept in thousandths of a *)
(* percent, an amount of money in whole dollars.                           *)
(***************************************************************************)
Percent(whole, thousandths) == whole * 1000 + thousandths
PercentUnit == Percent(1, 0)

\* the number a JSON value is converted to by >, *, / and Math.abs
NotANumber == [nan |-> TRUE, n |-> 0]
ToNum(v) ==
    CASE v.t = "number" -> [nan |-> FALSE, n |-> v.n]
      [] v.t = "null" -> [nan |-> FALSE, n |-> 0]
      [] OTHER -> NotANumber

\* x > limit; a comparison with NaN is false
Greater(x, limit) == ~x.nan /\ x.n > limit

\* Math.abs(x)
MathAbs(x) == IF x.nan THEN x ELSE [nan |-> FALSE, n |-> Abs(x.n)]

\* (x / unit).toFixed(2) for x counted in 1/unit, unit a multiple of 100: the
\* text "NaN", or a sign, the whole part and two decimals.  The values of
\* the model are never halfway between two hundredths.
Fixed(nan, neg, whole, frac) == [nan |-> nan, neg |-> neg, whole |-> whole, frac |-> frac]
toFixed2(x, unit) ==
    IF x.nan THEN Fixed(TRUE, FALSE, 0, 0)
    ELSE LET hundredths == (Abs(x.n) + unit \div 200) \div (unit \div 100)
         IN  Fixed(FALSE, x.n < 0, hundredths \div 100, hundredths % 100)

(***************************************************************************)
(* calculateRiskScore                                                      *)
(***************************************************************************)
MarketData(change24h, change7d, total_volume, market_cap) ==
    [price_change_percentage_24h |-> change24h,
     price_change_percentage_7d |-> change7d,
     total_volume |-> total_volume,
     market_cap |-> market_cap]

Factor(factor, impact, amount, word, score) ==
    [factor |-> factor, impact |-> impact, amount |-> amount, word |-> word,
     score |-> score]

VolumeAboveCap(marketData) ==
    LET volume == ToNum(marketData.total_volume)
        cap == ToNum(marketData.market_cap)
    IN  ~volume.nan /\ ~cap.nan /\ volume.n > cap.n

\* marketData.total_volume > marketData.market_cap * 0.1
VolumeAboveTenth(marketData) ==
    LET volume == ToNum(marketData.total_volume)
        cap == ToNum(marketData.market_cap)
    IN  ~volume.nan /\ ~cap.nan /\ volume.n > cap.n \div 10

\* the four factors with their scores, in the order of the array literal
factors(marketData) ==
    LET change24h == ToNum(marketData.price_change_percentage_24h)
        change7d == ToNum(marketData.price_change_percentage_7d)
        cap == ToNum(marketData.market_cap)
        volume == ToNum(marketData.total_volume)
    IN  << Factor("24h Price Change",
                  IF Greater(change24h, 0) THEN "positive" ELSE "negative",
                  toFixed2(MathAbs(change24h), PercentUnit),
                  IF Greater(change24h, 0) THEN "increase" ELSE "decrease",
                  IF Greater(MathAbs(change24h), DailyChangeLimit * PercentUnit)
                  THEN 0 - 10 ELSE 0),
           Factor("Weekly Trend",
                  IF Greater(change7d, 0) THEN "positive" ELSE "negative",
                  toFixed2(MathAbs(change7d), PercentUnit),
                  IF Greater(change7d, 0) THEN "gain" ELSE "loss",
                  IF Greater(change7d, 0) THEN 5 ELSE 0 - 5),
           Factor("Market Cap",
                  IF Greater(cap, MarketCapLimit) THEN "positive" ELSE "neutral",
                  toFixed2(cap, 1000000000),
                  "B",
                  IF Greater(cap, MarketCapLimit) THEN 10 ELSE 0),
           Factor("Trading Volume",
                  IF VolumeAboveTenth(marketData) THEN "positive" ELSE "neutral",
                  toFixed2(volume, 1000000),
                  "M",
                  IF VolumeAboveTenth(marketData) THEN 5 ELSE 0) >>

RECURSIVE ReduceDoubled(_, _)
ReduceDoubled(fs, acc) ==
    IF fs = <<>> THEN acc ELSE ReduceDoubled(Tail(fs), acc + 2 * Head(fs).score)

RECURSIVE Reduce(_, _)
\* factors.reduce((acc, factor) => acc + factor.score, baseScore)
Reduce(fs, acc) ==
    IF fs = <<>> THEN acc ELSE Reduce(Tail(fs), acc + Head(fs).score)

\* Math.max(0, Math.min(100, totalScore))
Max(a, b) == IF a > b THEN a ELSE b
normalizedScore(totalScore) == Max(MinScore, Min(MaxScore, totalScore))

\* a penalty in proportion to the 24h change, not normalised
ScoreProportional(marketData) ==
    baseScore - Abs(ToNum(marketData.price_change_percentage_24h).n) \div PercentUnit
Score(marketData) == normalizedScore(Reduce(factors(marketData), baseScore))

\* { score, factors } with the score field of every factor dropped
calculateRiskScore(marketData) ==
    [score |-> Score(marketData),
     factors |-> [n \in 1..Len(factors(marketData)) |->
                     [factor |-> factors(marketData)[n].factor,
                      impact |-> factors(marketData)[n].impact,
                      amount |-> factors(marketData)[n].amount,
                      word |-> factors(marketData)[n].word]]]

(***************************************************************************)
(* getCryptoNews, from the parsed response on                              *)
(***************************************************************************)
NewsItem(about, word, amount, description) ==
    [about |-> about, word |-> word, amount |-> amount,
     description |-> description, source |-> "Market Data"]

News24hInverted(marketData) ==
    LET priceChange == ToNum(marketData.price_change_percentage_24h)
    IN  IF marketData.price_change_percentage_24h.t = "number"
        THEN << NewsItem("24h",
                         IF priceChange.n >= 0 THEN "drops" ELSE "gains",
                         toFixed2(MathAbs(priceChange), PercentUnit),
                         IF priceChange.n >= 0 THEN "decreased" ELSE "increased") >>
        ELSE <<>>

\* news.push under each of the four conditions, in the order of the code;
\* data.name, links.homepage and current_price.usd are present in the response
News24h(marketData) ==
    LET priceChange == ToNum(marketData.price_change_percentage_24h)
    IN  IF marketData.price_change_percentage_24h.t = "number"
        THEN << NewsItem("24h",
                         IF priceChange.n >= 0 THEN "gains" ELSE "drops",
                         toFixed2(MathAbs(priceChange), PercentUnit),
                         IF priceChange.n >= 0 THEN "increased" ELSE "decreased") >>
        ELSE <<>>
News7d(marketData) ==
    LET weeklyChange == ToNum(marketData.price_change_percentage_7d)
    IN  IF marketData.price_change_percentage_7d.t = "number"
        THEN << NewsItem("7d",
                         IF weeklyChange.n >= 0 THEN "rises" ELSE "falls",
                         toFixed2(MathAbs(weeklyChange), PercentUnit),
                         IF weeklyChange.n >= 0 THEN "positive" ELSE "negative") >>
        ELSE <<>>
NewsVolume(marketData) ==
    IF Truthy(marketData.total_volume)
    THEN << NewsItem("volume", "records",
                     toFixed2(ToNum(marketData.total_volume), 1000000), "") >>
    ELSE <<>>
NewsMarketCap(marketData) ==
    IF Truthy(marketData.market_cap)
    THEN << NewsItem("market cap", "market cap at",
                     toFixed2(ToNum(marketData.market_cap), 1000000000), "") >>
    ELSE <<>>

news(marketData) ==
    News24h(marketData) \o News7d(marketData)
        \o NewsVolume(marketData) \o NewsMarketCap(marketData)

(***************************************************************************)
(* A market snapshot before it is read.                                    *)
(***************************************************************************)
NoMarketData == MarketData(Undefined, Undefined, Undefined, Undefined)
NoRisk == [state |-> "none", score |-> 0, factors |-> <<>>]
NoNews == [state |-> "none", items |-> <<>>, error |-> NoError]

IdleSnapshot ==
    [status |-> "idle", market_data |-> NoMarketData, risk |-> NoRisk, news |-> NoNews]

(***************************************************************************)
(* The portfolio routes before their first request.                        *)
(***************************************************************************)
\* req.user: absent, or the user record of the session
NoUser == [present |-> FALSE, id |-> 0]
User(id) == [present |-> TRUE, id |-> id]

\* a request body; id, userId and cryptoId are 0, 0 and "" when the body has
\* no such key
RequestBody(id, userId, cryptoId) == [id |-> id, userId |-> userId, cryptoId |-> cryptoId]
NoRequestBody == RequestBody(0, 0, "")

Reply(method, user, param, body, status, items) ==
    [method |-> method, user |-> user, param |-> param, body |-> body,
     status |-> status, items |-> items]

IdleServer ==
    [portfolioItems |-> {}, reply |-> Reply("", NoUser, "", NoRequestBody, 0, {})]

(***************************************************************************)
(* getCryptoPriceHistory                                                   *)
(***************************************************************************)
\* element k of an array element, undefined beyond its end
At(e, k) == IF k <= Len(e) THEN Num(e[k]) ELSE Undefined

\* ([timestamp, price]) => ({ timestamp, price })
Point(e) == [timestamp |-> At(e, 1), price |-> At(e, 2)]

\* data.prices.map(...)
MapPointsReversed(a) == [n \in 1..Len(a) |-> Point(a[Len(a) + 1 - n])]
MapPoints(a) == [n \in 1..Len(a) |-> Point(a[n])]

\* !data.prices || !Array.isArray(data.prices)
InvalidSeriesFalsyOnly(v) == ~Truthy(v)
InvalidSeries(v) == ~Truthy(v) \/ ~IsArray(v)

\* new Error(error instanceof Error ? error.message : 'Failed to fetch price history')
WrapHistoryError(e) ==
    IF e.isError THEN Err(e.text, e.status, e.statusText)
    ELSE Err("Failed to fetch price history", 0, "")

\* the try block of getCryptoPriceHistory once its fetchWithRetry call c ended
TryPriceHistory(c) ==
    IF c.pc = "failed" THEN HistoryRejected(c.error)
    ELSE IF ~Ok(c.result)
    THEN HistoryRejected(Err("Failed to fetch price history:", 0, c.result.statusText))
    ELSE IF InvalidSeries(c.result.body.prices) THEN HistoryRejected(InvalidHistoryError)
    ELSE HistoryFulfilled(MapPoints(c.result.body.prices.a))

\* getCryptoPriceHistory with its catch block
GetCryptoPriceHistory(c) ==
    LET r == TryPriceHistory(c)
    IN  IF r.state = "rejected" THEN HistoryRejected(WrapHistoryError(r.error)) ELSE r

InitHistory ==
    /\ calls = [k \in CallIds |-> IdleCall]
    /\ portfolio = <<>>
    /\ batch = IdleBatch
    /\ iq = IdleQuery
    /\ hist = IdleHistory
    /\ serial = 1
    /\ view = Render(portfolio, NoPrices, "")
    /\ snap = IdleSnapshot
    /\ server = IdleServer

\* a call getCryptoPriceHistory(cryptoId, days), up to the await of its fetch
CallPriceHistory ==
    /\ hist.status \in {"idle", "settled"}
    /\ \E cryptoId \in Assets, days \in {1, 30} :
         /\ hist' = [IdleHistory EXCEPT !.status = "fetching", !.cryptoId = cryptoId,
                                        !.days = days]
         /\ calls' = [calls EXCEPT ![1] = StartCall("history", cryptoId, DefaultAttempts)]
    /\ UNCHANGED <<portfolio, batch, iq, serial, view, snap, server>>

HistoryResponse ==
    /\ hist.status = "fetching"
    /\ ResponseArrives(1)
    /\ UNCHANGED <<portfolio, batch, iq, hist, serial, view, snap, server>>

HistoryNetworkFails ==
    /\ hist.status = "fetching"
    /\ NetworkFails(1)
    /\ UNCHANGED <<portfolio, batch, iq, hist, serial, view, snap, server>>

HistoryDelayElapsed ==
    /\ hist.status = "fetching"
    /\ DelayElapsed(1)
    /\ UNCHANGED <<portfolio, batch, iq, hist, serial, view, snap, server>>

\* the rest of getCryptoPriceHistory after fetchWithRetry ended
HistorySettles ==
    /\ hist.status = "fetching"
    /\ Ended(calls[1])
    /\ hist' = [hist EXCEPT !.status = "settled",
                            !.outcome = GetCryptoPriceHistory(calls[1])]
    /\ UNCHANGED <<calls, portfolio, batch, iq, serial, view, snap, server>>

NextHistory ==
    \/ CallPriceHistory
    \/ HistoryResponse
    \/ HistoryNetworkFails
    \/ HistoryDelayElapsed
    \/ HistorySettles

SpecHistory == InitHistory /\ [][NextHistory]_vars

(***************************************************************************)
(* InvestmentCalculator: the price query of the selected cryptocurrency.   *)
(***************************************************************************)
\* cryptoIds[symbol]
cryptoIds(symbol) ==
    CASE symbol = "BTC" -> "bitcoin"
      [] symbol = "ETH" -> "ethereum"
      [] symbol = "XRP" -> "ripple"

\* retryDelay: Math.min(1000 * Math.pow(2, attemptIndex), 30000)
retryDelay(attemptIndex) == Min(BackoffBase * Pow2(attemptIndex), BackoffCap)

InitQuery ==
    /\ calls = [k \in CallIds |-> IdleCall]
    /\ portfolio = <<>>
    /\ batch = IdleBatch
    /\ iq = IdleQuery
    /\ hist = IdleHistory
    /\ serial = 1
    /\ view = Render(portfolio, NoPrices, "")
    /\ snap = IdleSnapshot
    /\ server = IdleServer

\* the queryFn: getCryptoPrice(cryptoIds[selectedCrypto]), up to its first await
RunQueryFn(q) ==
    /\ iq' = [q EXCEPT !.status = "fetching", !.fnCalls = @ + 1]
    /\ calls' = [calls EXCEPT
                  ![1] = StartCall("price", cryptoIds(q.selectedCrypto), DefaultAttempts)]

\* setSelectedCrypto(value): the query is enabled and fetches under its new key
SelectCrypto ==
    /\ iq.status \in {"idle", "success", "error"}
    /\ \E symbol \in Symbols :
         RunQueryFn([IdleQuery EXCEPT !.selectedCrypto = symbol])
    /\ UNCHANGED <<portfolio, batch, hist, serial, view, snap, server>>

QueryResponse ==
    /\ iq.status = "fetching"
    /\ ResponseArrives(1)
    /\ UNCHANGED <<portfolio, batch, iq, hist, serial, view, snap, server>>

QueryNetworkFails ==
    /\ iq.status = "fetching"
    /\ NetworkFails(1)
    /\ UNCHANGED <<portfolio, batch, iq, hist, serial, view, snap, server>>

QueryDelayElapsed ==
    /\ iq.status = "fetching"
    /\ DelayElapsed(1)
    /\ UNCHANGED <<portfolio, batch, iq, hist, serial, view, snap, server>>

\* useQuery with retry: 3: a rejected queryFn is run again after retryDelay
\* while failureCount < 3, then the query fails and onError toasts
QueryFnSettles ==
    /\ iq.status = "fetching"
    /\ Ended(calls[1])
    /\ LET p == GetCryptoPrice(cryptoIds(iq.selectedCrypto), calls[1])
           seen == [iq EXCEPT !.outcome = p,
                              !.requestsBefore = @ + calls[1].requests]
       IN  iq' = IF p.state = "fulfilled" THEN [seen EXCEPT !.status = "success"]
                 ELSE LET failed ==
                            [seen EXCEPT !.requestsAtRejection =
                                            IF iq.failureCount = 0
                                            THEN seen.requestsBefore ELSE @]
                      IN  IF iq.failureCount < QueryRetry
                          THEN [failed EXCEPT !.status = "retryWait",
                                              !.failureCount = @ + 1]
                          ELSE [failed EXCEPT !.status = "error", !.toasts = @ + 1]
    /\ UNCHANGED <<calls, portfolio, batch, hist, serial, view, snap, server>>

\* the retry timer of the query fires
QueryRetryFires ==
    /\ iq.status = "retryWait"
    /\ RunQueryFn(iq)
    /\ UNCHANGED <<portfolio, batch, hist, serial, view, snap, server>>

NextQuery ==
    \/ SelectCrypto
    \/ QueryResponse
    \/ QueryNetworkFails
    \/ QueryDelayElapsed
    \/ QueryFnSettles
    \/ QueryRetryFires

SpecQuery == InitQuery /\ [][NextQuery]_vars

(***************************************************************************)
(* PortfolioTracker: the positions and the price query.                    *)
(***************************************************************************)
Position(id, cryptoId, symbol, amount, initialInvestment) ==
    [id |-> id, cryptoId |-> cryptoId, symbol |-> symbol, amount |-> amount,
     initialInvestment |-> initialInvestment]

\* the rows the tracker may hold, in the order the server returns them
PositionPool ==
    << Position(1, "bitcoin", "BTC", 2, 10000),
       Position(2, "ethereum", "ETH", 3, 0),
       Position(3, "bitcoin", "BTC", 1, 500),
       Position(4, "ripple", "XRP", 5, 100) >>

RECURSIVE SubSeqOf(_, _)
\* the rows of the pool whose index is in the set keep, in pool order
SubSeqOf(keep, n) ==
    IF n = 0 THEN <<>>
    ELSE IF n \in keep THEN Append(SubSeqOf(keep, n - 1), PositionPool[n])
    ELSE SubSeqOf(keep, n - 1)

Portfolios ==
    {SubSeqOf(keep, Len(PositionPool)) :
        keep \in {k \in SUBSET (1..Len(PositionPool)) : Cardinality(k) <= MaxPositions}}

SeqRange(q) == {q[n] : n \in 1..Len(q)}

RECURSIVE Dedupe(_)
\* Array.from(new Set(q)): the distinct elements in order of first occurrence
Dedupe(q) ==
    IF q = <<>> THEN <<>>
    ELSE LET front == Dedupe(SubSeq(q, 1, Len(q) - 1))
             x == q[Len(q)]
         IN  IF x \in SeqRange(front) THEN front ELSE Append(front, x)

\* Array.from(new Set(portfolio.map(item => item.cryptoId)))
CryptoIdPerPosition(items) == [n \in 1..Len(items) |-> items[n].cryptoId]
UniqueSymbols(items) == Dedupe([n \in 1..Len(items) |-> items[n].symbol])
UniqueCryptoIds(items) == Dedupe([n \in 1..Len(items) |-> items[n].cryptoId])


Tasks == 1..Len(batch.ids)

\* the catch of one task: log and toast, the error goes no further
TaskCatchRethrow(b, cryptoId, e) == [b EXCEPT !.status = "error"]
TaskCatch(b, cryptoId, e) == [b EXCEPT !.toasts[cryptoId] = @ + 1]

\* what `await Promise.all(tasks)` waits for
AnySettled(b) == b.settled # {}
AllSettled(b) == b.settled = 1..Len(b.ids)

InitBatch ==
    /\ calls = [k \in CallIds |-> IdleCall]
    /\ portfolio \in Portfolios
    /\ batch = IdleBatch
    /\ iq = IdleQuery
    /\ hist = IdleHistory
    /\ serial = 1
    /\ view = Render(portfolio, NoPrices, "")
    /\ snap = IdleSnapshot
    /\ server = IdleServer

\* useQuery runs queryFn (enabled: portfolio.length > 0; again at each
\* refetchInterval): every task runs up to the await of its first fetch
Resolve ==
    /\ Len(portfolio) > 0
    /\ batch.status \in {"idle", "success"}
    /\ LET ids == UniqueCryptoIds(portfolio)
           started == [k \in CallIds |->
                           IF k <= Len(ids)
                           THEN StartCall("price", ids[k], DefaultAttempts)
                           ELSE IdleCall]
       IN  /\ calls' = started
           /\ batch' = [IdleBatch EXCEPT
                          !.status = "fetching", !.ids = ids,
                          !.lookups = [k \in 1..Len(ids) |-> started[k].id]]
    /\ UNCHANGED <<portfolio, iq, hist, serial, view, snap, server>>

BatchResponse ==
    /\ batch.status = "fetching"
    /\ \E t \in Tasks : ResponseArrives(t)
    /\ UNCHANGED <<portfolio, batch, iq, hist, serial, view, snap, server>>

BatchNetworkFails ==
    /\ batch.status = "fetching"
    /\ \E t \in Tasks : NetworkFails(t)
    /\ UNCHANGED <<portfolio, batch, iq, hist, serial, view, snap, server>>

BatchDelayElapsed ==
    /\ batch.status = "fetching"
    /\ \E t \in Tasks : DelayElapsed(t)
    /\ UNCHANGED <<portfolio, batch, iq, hist, serial, view, snap, server>>

\* getCryptoPrice of task t settles: prices[cryptoId] = the price, or the catch
TaskSettles(t) ==
    /\ batch.status = "fetching"
    /\ t \in Tasks \ batch.settled
    /\ Ended(calls[t])
    /\ CanRun(t)
    /\ LET cryptoId == batch.ids[t]
           p == GetCryptoPrice(cryptoId, calls[t])
           done == [batch EXCEPT !.settled = @ \cup {t}, !.outcome[t] = p]
       IN  batch' = IF p.state = "fulfilled"
                    THEN [done EXCEPT !.prices[cryptoId] = p.value]
                    ELSE TaskCatch(done, cryptoId, p.error)
    /\ calls' = [calls EXCEPT ![t] = IdleCall]
    /\ UNCHANGED <<portfolio, iq, hist, serial, view, snap, server>>

BatchTaskSettles == \E t \in Tasks : TaskSettles(t)

\* Promise.all resolves: return prices (the figures rendered from the data
\* are computed by PricesResolved)
QueryFnReturns ==
    /\ batch.status = "fetching"
    /\ AllSettled(batch)
    /\ batch' = [batch EXCEPT !.status = "success", !.data = batch.prices]
    /\ UNCHANGED <<calls, portfolio, iq, hist, serial, view, snap, server>>

NextBatch ==
    \/ Resolve
    \/ BatchResponse
    \/ BatchNetworkFails
    \/ BatchDelayElapsed
    \/ BatchTaskSettles
    \/ QueryFnReturns

SpecBatch == InitBatch /\ [][NextBatch]_vars

(***************************************************************************)
(* PortfolioTracker: adding and removing investments, and the figures      *)
(* rendered after every change of the positions or of the prices.          *)
(***************************************************************************)
\* what the form fields may hold at submission; amount and initialInvestment
\* default to "0"
FormSymbols == {"", "BTC", "ETH"}
FormAmounts == {"0", "2", "-1", "", "abc"}
FormInvestments == {"0", "10000", "-5"}

\* Number(val) of a form string; Number("") is 0
NumberOf(val) ==
    CASE val = "0" -> [nan |-> FALSE, num |-> 0]
      [] val = "" -> [nan |-> FALSE, num |-> 0]
      [] val = "2" -> [nan |-> FALSE, num |-> 2]
      [] val = "10000" -> [nan |-> FALSE, num |-> 10000]
      [] val = "-1" -> [nan |-> FALSE, num |-> 0 - 1]
      [] val = "-5" -> [nan |-> FALSE, num |-> 0 - 5]
      [] OTHER -> [nan |-> TRUE, num |-> 0]

\* the transform of amount and of initialInvestment: throws on NaN and on
\* num < 0, returns num otherwise
Transform(val) ==
    ~NumberOf(val).nan /\ ~(NumberOf(val).num < 0)

\* the cryptoId field: cryptoIds[value] once a cryptocurrency is selected
FormCryptoId(symbol) == IF symbol = "" THEN "" ELSE cryptoIds(symbol)

\* addInvestmentSchema parses the form data
addInvestmentSchema(symbol, amount, initialInvestment) ==
    /\ FormCryptoId(symbol) # ""
    /\ symbol # ""
    /\ Transform(amount)
    /\ Transform(initialInvestment)

\* the portfolio_items row the POST route inserts and returns
InsertedRow(symbol, amount, initialInvestment) ==
    Position(serial, FormCryptoId(symbol), symbol,
             NumberOf(amount).num, NumberOf(initialInvestment).num)

RECURSIVE Without(_, _)
\* prevPortfolio.filter(item => item.id !== id)
Without(items, id) ==
    IF items = <<>> THEN <<>>
    ELSE LET front == Without(SubSeq(items, 1, Len(items) - 1), id)
             x == items[Len(items)]
         IN  IF x.id # id THEN Append(front, x) ELSE front

\* the data of the price query: a price for some of the held assets
PriceData(items) ==
    LET held == SeqRange(UniqueCryptoIds(items))
    IN  {[k \in Keys |-> IF k \in held THEN m[k] ELSE Undefined] :
            m \in [held -> {Undefined, Num(10), Num(6000)}]}

InitTracker ==
    /\ calls = [k \in CallIds |-> IdleCall]
    /\ portfolio = <<>>
    /\ batch = IdleBatch
    /\ iq = IdleQuery
    /\ hist = IdleHistory
    /\ serial = 1
    /\ view = Render(portfolio, NoPrices, "")
    /\ snap = IdleSnapshot
    /\ server = IdleServer

\* form.handleSubmit: the resolver rejects the data, onSubmit is not called
SubmitInvalid ==
    /\ \E symbol \in FormSymbols, amount \in FormAmounts,
          initialInvestment \in FormInvestments :
          ~addInvestmentSchema(symbol, amount, initialInvestment)
    /\ view' = Render(portfolio, batch.data, "")
    /\ UNCHANGED <<calls, portfolio, batch, iq, hist, serial, snap, server>>

\* onSubmit, the POST answered ok: the new row is appended; the query key
\* changes with the positions, so the prices are unset until resolved
SubmitInvestment ==
    /\ serial <= MaxAdds
    /\ \E symbol \in FormSymbols, amount \in FormAmounts,
          initialInvestment \in FormInvestments :
          /\ addInvestmentSchema(symbol, amount, initialInvestment)
          /\ portfolio' = Append(portfolio, InsertedRow(symbol, amount, initialInvestment))
    /\ serial' = serial + 1
    /\ batch' = IdleBatch
    /\ view' = Render(portfolio', NoPrices, "Investment added")
    /\ UNCHANGED <<calls, iq, hist, snap, server>>

\* onSubmit, the POST fails or is answered not ok
SubmitFails ==
    /\ \E symbol \in FormSymbols, amount \in FormAmounts,
          initialInvestment \in FormInvestments :
          addInvestmentSchema(symbol, amount, initialInvestment)
    /\ view' = Render(portfolio, batch.data, "Error")
    /\ UNCHANGED <<calls, portfolio, batch, iq, hist, serial, snap, server>>

\* handleDeleteInvestment, the DELETE answered ok
DeleteInvestment ==
    /\ \E n \in 1..Len(portfolio) :
          portfolio' = Without(portfolio, portfolio[n].id)
    /\ batch' = IdleBatch
    /\ view' = Render(portfolio', NoPrices, "Investment removed")
    /\ UNCHANGED <<calls, iq, hist, serial, snap, server>>

\* handleDeleteInvestment, the DELETE fails or is answered not ok
DeleteFails ==
    /\ portfolio # <<>>
    /\ view' = Render(portfolio, batch.data, "Error")
    /\ UNCHANGED <<calls, portfolio, batch, iq, hist, serial, snap, server>>

\* the price query resolves (enabled: portfolio.length > 0)
PricesResolved ==
    /\ Len(portfolio) > 0
    /\ \E data \in PriceData(portfolio) :
          /\ batch' = [batch EXCEPT !.status = "success", !.data = data]
          /\ view' = Render(portfolio, data, view.toast)
    /\ UNCHANGED <<calls, portfolio, iq, hist, serial, snap, server>>

NextTracker ==
    \/ SubmitInvalid
    \/ SubmitInvestment
    \/ SubmitFails
    \/ DeleteInvestment
    \/ DeleteFails
    \/ PricesResolved

SpecTracker == InitTracker /\ [][NextTracker]_vars

(***************************************************************************)
(* One reading of the coin detail endpoint, scored by calculateRiskScore   *)
(* and turned into digest items by getCryptoNews.                          *)
(***************************************************************************)
\* what the market_data section of the response may hold
Changes24h ==
    {Num(0 - Percent(1000, 0)), Num(0 - Percent(10, 1)), Num(0 - Percent(10, 0)),
     Num(0 - Percent(3, 0)), Num(0), Num(Percent(0, 4)), Num(Percent(10, 0)),
     Num(Percent(12, 0)), Num(Percent(12, 346)), Num(Percent(1000, 0)),
     Undefined, Null}
Changes7d ==
    {Num(0 - Percent(1000, 0)), Num(0 - Percent(3, 0)), Num(0), Num(Percent(0, 4)),
     Num(Percent(12, 346)), Num(Percent(1000, 0)), Undefined, Null}
Volumes ==
    {Num(0), Num(100000000), Num(100000001), Num(300000000), Undefined, Obj}
MarketCaps ==
    {Num(0 - 1000000000), Num(0), Num(1000000000), Num(1000000001), Num(2000000000),
     Undefined, Obj}

InitSnapshot ==
    /\ calls = [k \in CallIds |-> IdleCall]
    /\ portfolio = <<>>
    /\ batch = IdleBatch
    /\ iq = IdleQuery
    /\ hist = IdleHistory
    /\ serial = 1
    /\ view = Render(portfolio, NoPrices, "")
    /\ snap = IdleSnapshot
    /\ server = IdleServer

\* the detail endpoint answers; response.json() is parsed
DetailsArrive ==
    /\ snap.status = "idle"
    /\ \E change24h \in Changes24h, change7d \in Changes7d,
          total_volume \in Volumes, market_cap \in MarketCaps :
          snap' = [snap EXCEPT !.status = "read",
                      !.market_data = MarketData(change24h, change7d, total_volume, market_cap)]
    /\ UNCHANGED <<calls, portfolio, batch, iq, hist, serial, view, server>>

\* calculateRiskScore(data.market_data)
CalculateRisk ==
    /\ snap.status = "read"
    /\ snap.risk.state = "none"
    /\ snap' = [snap EXCEPT !.risk =
                   [state |-> "returned",
                    score |-> calculateRiskScore(snap.market_data).score,
                    factors |-> calculateRiskScore(snap.market_data).factors]]
    /\ UNCHANGED <<calls, portfolio, batch, iq, hist, serial, view, server>>

\* getCryptoNews returns the items built from the parsed response
GetCryptoNews ==
    /\ snap.status = "read"
    /\ snap.news.state = "none"
    /\ snap' = [snap EXCEPT !.news =
                   [state |-> "fulfilled", items |-> news(snap.market_data),
                    error |-> NoError]]
    /\ UNCHANGED <<calls, portfolio, batch, iq, hist, serial, view, server>>

\* getCryptoNews: fetchWithRetry rejects, the catch block rethrows
NewsFetchFails ==
    /\ snap.status = "idle"
    /\ snap.news.state = "none"
    /\ \E e \in NetworkErrors \cup {HttpError(500, StatusText(500)), MaxRetryError} :
          snap' = [snap EXCEPT !.status = "failed",
                      !.news = [state |-> "rejected", items |-> <<>>, error |-> e]]
    /\ UNCHANGED <<calls, portfolio, batch, iq, hist, serial, view, server>>

NextSnapshot ==
    \/ DetailsArrive
    \/ CalculateRisk
    \/ GetCryptoNews
    \/ NewsFetchFails

SpecSnapshot == InitSnapshot /\ [][NextSnapshot]_vars

(***************************************************************************)
(* The portfolio routes: GET, POST and DELETE on /api/portfolio.           *)
(***************************************************************************)
Users == {1, 2}
Requesters == {NoUser} \cup {User(u) : u \in Users}

PortfolioItem(id, userId, cryptoId) == [id |-> id, userId |-> userId, cryptoId |-> cryptoId]

\* what a client may send: a body without an id or with the id 2, without a
\* userId or with the id of a user
RequestBodies ==
    {RequestBody(id, userId, cryptoId) :
        id \in {0, 2}, userId \in {0} \cup Users, cryptoId \in {"", "bitcoin", "ethereum"}}
IdParams == {"1", "2", "3", "2abc", "abc"}

\* parseInt(req.params.id): the leading digits, NaN without any
parseInt(param) ==
    CASE param = "1" -> [nan |-> FALSE, n |-> 1]
      [] param = "2" -> [nan |-> FALSE, n |-> 2]
      [] param = "3" -> [nan |-> FALSE, n |-> 3]
      [] param = "2abc" -> [nan |-> FALSE, n |-> 2]
      [] OTHER -> [nan |-> TRUE, n |-> 0]

\* eq(portfolioItems.userId, req.user.id)
OwnedBy(items, user) == {item \in items : item.userId = user.id}

\* { ...req.body, userId: req.user.id, purchaseDate: new Date() }
ValuesBodyLast(body, user) ==
    RequestBody(body.id, IF body.userId # 0 THEN body.userId ELSE user.id, body.cryptoId)
Values(body, user) == RequestBody(body.id, user.id, body.cryptoId)

\* the row an insert of these values writes: the id is the given one or the
\* next value of the sequence
InsertedItem(values) ==
    PortfolioItem(IF values.id # 0 THEN values.id ELSE serial, values.userId, values.cryptoId)

\* the insert violates NOT NULL or the primary key
InsertFails(values) ==
    \/ values.cryptoId = ""
    \/ \E item \in server.portfolioItems : item.id = InsertedItem(values).id

\* and(eq(portfolioItems.id, id), eq(portfolioItems.userId, req.user.id))
Matching(id, user) ==
    {item \in server.portfolioItems : item.id = id /\ item.userId = user.id}

InitApi ==
    /\ calls = [k \in CallIds |-> IdleCall]
    /\ portfolio = <<>>
    /\ batch = IdleBatch
    /\ iq = IdleQuery
    /\ hist = IdleHistory
    /\ serial = 1
    /\ view = Render(portfolio, NoPrices, "")
    /\ snap = IdleSnapshot
    /\ server = IdleServer

\* the requests of the three routes: method, :id and body
Requests ==
    {<<"GET", "", NoRequestBody>>}
    \cup {<<"POST", "", body>> : body \in RequestBodies}
    \cup {<<"DELETE", param, NoRequestBody>> : param \in IdParams}

\* any of the three routes, no user in the request: 401
Unauthorized ==
    /\ \E req \in Requests :
          server' = [server EXCEPT !.reply = Reply(req[1], NoUser, req[2], req[3], 401, {})]
    /\ UNCHANGED <<calls, portfolio, batch, iq, hist, serial, view, snap>>

\* app.get("/api/portfolio")
GetPortfolio ==
    /\ \E u \in Users :
          server' = [server EXCEPT !.reply =
                        Reply("GET", User(u), "", NoRequestBody, 200,
                              OwnedBy(server.portfolioItems, User(u)))]
    /\ UNCHANGED <<calls, portfolio, batch, iq, hist, serial, view, snap>>

\* app.post("/api/portfolio"): the insert returns the new row
PostPortfolio ==
    /\ serial <= MaxRows
    /\ \E u \in Users, body \in RequestBodies :
          LET values == Values(body, User(u))
          IN  /\ ~InsertFails(values)
              /\ server' = [server EXCEPT
                              !.portfolioItems = @ \cup {InsertedItem(values)},
                              !.reply = Reply("POST", User(u), "", body, 200,
                                              {InsertedItem(values)})]
              /\ serial' = IF values.id # 0 THEN serial ELSE serial + 1
    /\ UNCHANGED <<calls, portfolio, batch, iq, hist, view, snap>>

\* app.post("/api/portfolio"): the insert throws, nothing is answered; a
\* value taken from the sequence is not given back
PostPortfolioThrows ==
    /\ serial <= MaxRows
    /\ \E u \in Users, body \in RequestBodies :
          LET values == Values(body, User(u))
          IN  /\ InsertFails(values)
              /\ server' = [server EXCEPT
                              !.reply = Reply("POST", User(u), "", body, 0, {})]
              /\ serial' = IF values.id # 0 THEN serial ELSE serial + 1
    /\ UNCHANGED <<calls, portfolio, batch, iq, hist, view, snap>>

\* app.delete("/api/portfolio/:id")
DeletePortfolio ==
    /\ \E u \in Users, param \in IdParams :
          /\ ~parseInt(param).nan
          /\ server' = [server EXCEPT
                          !.portfolioItems = @ \ Matching(parseInt(param).n, User(u)),
                          !.reply = Reply("DELETE", User(u), param, NoRequestBody, 200, {})]
    /\ UNCHANGED <<calls, portfolio, batch, iq, hist, serial, view, snap>>

\* app.delete("/api/portfolio/:id") with an id that is not a number: NaN
\* matches no row, or the query is refused and nothing is answered
DeletePortfolioNaN ==
    /\ \E u \in Users, param \in IdParams, status \in {0, 200} :
          /\ parseInt(param).nan
          /\ server' = [server EXCEPT
                          !.reply = Reply("DELETE", User(u), param, NoRequestBody, status, {})]
    /\ UNCHANGED <<calls, portfolio, batch, iq, hist, serial, view, snap>>

NextApi ==
    \/ Unauthorized
    \/ GetPortfolio
    \/ PostPortfolio
    \/ PostPortfolioThrows
    \/ DeletePortfolio
    \/ DeletePortfolioNaN

SpecApi == InitApi /\ [][NextApi]_vars

(***************************************************************************)
(* A single call of fetchWithRetry with any attempts argument.             *)
(***************************************************************************)
InitFetch ==
    /\ calls = [k \in CallIds |-> IdleCall]
    /\ portfolio = <<>>
    /\ batch = IdleBatch
    /\ iq = IdleQuery
    /\ hist = IdleHistory
    /\ serial = 1
    /\ view = Render(portfolio, NoPrices, "")
    /\ snap = IdleSnapshot
    /\ server = IdleServer

CallFetchWithRetry ==
    /\ calls[1].pc = "idle"
    /\ \E attempts \in (-1)..MaxAttempts :
         calls' = [calls EXCEPT ![1] = StartCall("price", "bitcoin", attempts)]
    /\ UNCHANGED <<portfolio, batch, iq, hist, serial, view, snap, server>>

FetchResponse == ResponseArrives(1) /\ UNCHANGED <<portfolio, batch, iq, hist, serial, view, snap, server>>
FetchNetworkFails == NetworkFails(1) /\ UNCHANGED <<portfolio, batch, iq, hist, serial, view, snap, server>>
FetchDelayElapsed == DelayElapsed(1) /\ UNCHANGED <<portfolio, batch, iq, hist, serial, view, snap, server>>

NextFetch ==
    \/ CallFetchWithRetry
    \/ FetchResponse
    \/ FetchNetworkFails
    \/ FetchDelayElapsed

SpecFetch == InitFetch /\ [][NextFetch]_vars

\* every fetch(url) settles, with a response or a network failure, and every
\* timer of delay(waitTime) fires
SpecFetchFair == SpecFetch /\ WF_vars(NextFetch)

(***************************************************************************)
(* Claims about fetchWithRetry (checked under SpecFetch).                  *)
(***************************************************************************)
TheCall == calls[1]

\* the call returned the response of its last request, after failures on all
\* earlier attempts, with one wait after each of them and none after the success
ReturnsAfter(c) ==
    /\ c.requests = c.i + 1
    /\ c.requests <= c.attempts
    /\ Ok(c.result) /\ c.result.seq = c.requests
    /\ Len(c.waits) = c.requests - 1
    /\ ~ENABLED NextFetch

\* C1 as stated: a call that sees k-1 failures and then a success returns that
\* response after exactly k attempts, and the wait before attempt n (the
\* attempts counted 1..k) is min(1000*2^(n-1), 30000) ms.
C1_Original ==
    TheCall.pc = "returned" =>
        /\ ReturnsAfter(TheCall)
        /\ \A n \in 2..TheCall.requests :
              TheCall.waits[n - 1] = Min(BackoffBase * Pow2(n - 1), BackoffCap)

\* C1 as amended: a call that sees k-1 failures and then a success returns that
\* response after exactly k attempts, with no attempt and no wait after it, and
\* the wait before attempt n (counted 1..k, n >= 2) is min(1000*2^(n-2), 30000)
\* ms: the wait after the failed attempt with index j (from 0) is
\* min(1000*2^j, 30000).
C1_ReturnsAfterKAttempts ==
    TheCall.pc = "returned" =>
        /\ ReturnsAfter(TheCall)
        /\ \A n \in 2..TheCall.requests :
              TheCall.waits[n - 1] = Min(BackoffBase * Pow2(n - 2), BackoffCap)

\* a success on the seventh attempt, behind a wait that the cap cut to 30 s
C1_Witness ==
    /\ TheCall.pc = "returned"
    /\ TheCall.requests = 7
    /\ TheCall.waits[1] = 1000 /\ TheCall.waits[2] = 2000
    /\ TheCall.waits[6] = 30000

\* C2: a call that exhausts its attempts fails with the last observed failure:
\* the status and status text of a last non-success, non-429 response, or the
\* network error of a last attempt without response; a failed attempt before
\* the last is followed by its backoff wait and a further request, never by the
\* terminal failure.
C2_FailsWithLastFailure ==
    /\ TheCall.pc = "failed" =>
          /\ TheCall.i >= TheCall.attempts - 1
          /\ TheCall.observed # NoError => TheCall.error = TheCall.observed
          /\ (TheCall.last = "response" /\ TheCall.result.status # RateLimitStatus) =>
                TheCall.error = HttpError(TheCall.result.status,
                                          StatusText(TheCall.result.status))
          /\ TheCall.last = "network" => TheCall.error \in NetworkErrors
    /\ TheCall.pc = "delayCatch" =>
          /\ TheCall.i < TheCall.attempts - 1
          /\ TheCall.lastError = TheCall.observed
          /\ Len(TheCall.waits) = TheCall.i + 1
          /\ TheCall.waits[TheCall.i + 1] = Min(BackoffBase * Pow2(TheCall.i), BackoffCap)
          /\ ENABLED FetchDelayElapsed
    /\ TheCall.pc = "awaitFetch" => TheCall.requests = TheCall.i + 1

\* the last of 7 attempts fails with a 500 after an earlier network failure
C2_Witness ==
    /\ TheCall.pc = "failed"
    /\ TheCall.attempts = 7 /\ TheCall.i = 6
    /\ TheCall.error = HttpError(500, "Internal Server Error")
    /\ Len(TheCall.waits) = 6

\* C3: a 429 answer to the attempt with index i records no failure (lastError
\* is left as it was), makes the call wait min(1000*2^i, 30000) ms and then go
\* on with iteration i+1 of the same loop, which issues the next request when
\* i+1 < attempts; a failed call never carries the 429 as its error.
C3_RateLimitStep ==
    /\ (TheCall.pc = "awaitFetch" /\ TheCall'.pc # "awaitFetch"
        /\ TheCall'.last = "response"
        /\ TheCall'.result.status = RateLimitStatus) =>
          /\ TheCall'.pc = "delay429"
          /\ TheCall'.lastError = TheCall.lastError
          /\ TheCall'.i = TheCall.i
          /\ TheCall'.requests = TheCall.requests
          /\ TheCall'.waits =
                Append(TheCall.waits, Min(BackoffBase * Pow2(TheCall.i), BackoffCap))
    /\ (TheCall.pc = "delay429" /\ TheCall'.pc # "delay429") =>
          /\ TheCall'.i = TheCall.i + 1
          /\ TheCall'.lastError = TheCall.lastError
          /\ IF TheCall.i + 1 < TheCall.attempts
             THEN TheCall'.pc = "awaitFetch" /\ TheCall'.requests = TheCall.requests + 1
             ELSE TheCall'.pc = "failed" /\ TheCall'.requests = TheCall.requests
    /\ TheCall'.pc = "failed" => TheCall'.error.status # RateLimitStatus

C4_GenericOnlyWithoutRecord ==
    TheCall.pc = "failed" =>
        /\ TheCall.error = MaxRetryError <=>
              (TheCall.observed = NoError /\ TheCall.i >= TheCall.attempts)
        /\ TheCall.observed # NoError =>
              /\ TheCall.error = TheCall.observed
              /\ TheCall.error # MaxRetryError

\* three attempts, each answered with 429: the generic error
C4_Witness ==
    /\ TheCall.pc = "failed"
    /\ TheCall.attempts = 3 /\ TheCall.requests = 3
    /\ TheCall.observed = NoError
    /\ TheCall.error = MaxRetryError

\* an error recorded on the first attempt, then 429 up to the last attempt
C4_WitnessRecorded ==
    /\ TheCall.pc = "failed"
    /\ TheCall.i = TheCall.attempts /\ TheCall.attempts = 3
    /\ TheCall.last = "none"
    /\ TheCall.error \in NetworkErrors

(***************************************************************************)
(* Claims about the batch price resolution (checked under SpecBatch).      *)
(***************************************************************************)
\* the task that looks up the asset
TaskOf(cryptoId) == CHOOSE t \in Tasks : batch.ids[t] = cryptoId

RECURSIVE ValueOfFulfilled(_)
\* the sum of price x quantity over the positions whose asset's lookup was
\* fulfilled, the others counting 0
ValueOfFulfilled(items) ==
    IF items = <<>> THEN 0
    ELSE LET item == items[Len(items)]
             o == batch.outcome[TaskOf(item.cryptoId)]
         IN  ValueOfFulfilled(SubSeq(items, 1, Len(items) - 1))
             + (IF o.state = "fulfilled" THEN ToNumber(o.value) * item.amount ELSE 0)

\* C5: a resolution never fails, whichever lookups fail; the map it returns
\* holds the price of every asset whose lookup was fulfilled and nothing else,
\* one warning was raised for each asset whose lookup failed and none for the
\* others, and totalValue counts price x quantity for the fulfilled assets and
\* 0 for the failed ones.
C5_PartialFailure ==
    /\ batch.status # "error"
    /\ batch.status = "success" =>
          /\ \A t \in Tasks :
                LET o == batch.outcome[t]
                    cryptoId == batch.ids[t]
                IN  /\ o.state \in {"fulfilled", "rejected"}
                    /\ o.state = "fulfilled" =>
                          batch.data[cryptoId] = o.value /\ batch.toasts[cryptoId] = 0
                    /\ o.state = "rejected" =>
                          batch.data[cryptoId] = Undefined /\ batch.toasts[cryptoId] = 1
          /\ \A k \in Keys \ SeqRange(batch.ids) :
                batch.data[k] = Undefined /\ batch.toasts[k] = 0
          /\ totalValue(portfolio, batch.data) = ValueOfFulfilled(portfolio)

\* bitcoin resolved to 10 and ethereum failed: the holding of 2 bitcoin counts 20
C5_Witness ==
    /\ batch.status = "success"
    /\ batch.ids = <<"bitcoin", "ethereum">>
    /\ batch.outcome[1] = Fulfilled(Num(10))
    /\ batch.outcome[2].state = "rejected"
    /\ batch.toasts["ethereum"] = 1 /\ batch.toasts["bitcoin"] = 0
    /\ totalValue(portfolio, batch.data) = 20

\* C6: a resolution looks up each distinct asset identifier of the positions
\* exactly once, by the identifier and not by the symbol, and every lookup has
\* issued its first request before any of them goes on.
C6_OneLookupPerDistinctId ==
    batch.status \in {"fetching", "success"} =>
        /\ SeqRange(batch.lookups) = {portfolio[n].cryptoId : n \in 1..Len(portfolio)}
        /\ Len(batch.lookups) = Cardinality(SeqRange(batch.lookups))
        /\ batch.status = "fetching" =>
              \A t \in 1..Len(batch.lookups) :
                 t \notin batch.settled =>
                    /\ calls[t].pc # "idle"
                    /\ calls[t].requests >= 1
                    /\ calls[t].endpoint = "price"
                    /\ calls[t].id = batch.lookups[t]

\* two positions in bitcoin and one in ethereum: two lookups, both in flight
C6_Witness ==
    /\ Len(portfolio) = 3
    /\ batch.status = "fetching"
    /\ batch.lookups = <<"bitcoin", "ethereum">>
    /\ calls[1].pc = "awaitFetch" /\ calls[1].requests = 1
    /\ calls[2].pc = "awaitFetch" /\ calls[2].requests = 1

\* one step of task t: of its fetchWithRetry call, or its settling
TaskStep(t) ==
    \/ /\ \/ ResponseArrives(t)
          \/ NetworkFails(t)
          \/ DelayElapsed(t)
       /\ UNCHANGED <<portfolio, batch, iq, hist, serial, view, snap, server>>
    \/ TaskSettles(t)

\* C7: a resolution returns only when every per-asset lookup has settled, and
\* a lookup that is slow, failed or waiting in a backoff holds up no other:
\* every lookup that has not settled can take its next step in every state.
C7_JoinWithoutBlocking ==
    /\ batch.status = "success" =>
          /\ batch.settled = Tasks
          /\ \A t \in Tasks : batch.outcome[t].state # "pending" /\ calls[t].pc = "idle"
    /\ batch.status = "fetching" =>
          /\ \A t \in Tasks \ batch.settled : ENABLED TaskStep(t)
          /\ \A w, t \in Tasks :
                (w # t /\ calls[w].pc \in Delays /\ calls[t].pc = "awaitFetch") =>
                   ENABLED (ResponseArrives(t) /\ UNCHANGED <<portfolio, batch, iq, hist, serial, view, snap, server>>)
    /\ batch.status # "error"

\* the first lookup waits in its backoff while the second has been fulfilled
C7_Witness ==
    /\ batch.status = "fetching"
    /\ Len(batch.ids) >= 2
    /\ calls[1].pc = "delayCatch"
    /\ 2 \in batch.settled /\ batch.outcome[2].state = "fulfilled"
    /\ 1 \notin batch.settled

\* all three lookups have settled, one of them rejected, and the query returned
C7_WitnessJoined ==
    /\ batch.status = "success"
    /\ Len(batch.ids) = 3
    /\ batch.outcome[3].state = "rejected"
    /\ batch.outcome[1].state = "fulfilled"

(***************************************************************************)
(* Claims about the market data client (SpecQuery, SpecHistory).           *)
(***************************************************************************)
\* the HTTP requests issued so far for the selected cryptocurrency's lookup
TotalRequests ==
    iq.requestsBefore + (IF iq.status = "fetching" THEN calls[1].requests ELSE 0)

\* C8: retrying is the Fetcher's business alone: the lookup of the selected
\* cryptocurrency runs getCryptoPrice, and with it fetchWithRetry, once, and
\* after a terminal Fetcher failure or a malformed response no further HTTP
\* request is issued for that lookup.
C8_RetryOnlyInFetcher ==
    /\ iq.fnCalls <= 1
    /\ iq.failureCount > 0 => TotalRequests = iq.requestsAtRejection

\* C9: once fetchWithRetry has returned a response, getCryptoPrice fails with
\* 'Invalid price data received' if and only if the response holds no numeric
\* usd price under the requested asset key, and returns that price when it
\* holds one.
C9_InvalidIffNotNumeric ==
    (iq.status # "fetching" /\ iq.outcome # Pending /\ calls[1].pc = "returned") =>
        LET usd == UsdOf(calls[1].result.body, cryptoIds(iq.selectedCrypto))
        IN  /\ iq.outcome = Rejected(InvalidPriceError) <=> usd.t # "number"
            /\ usd.t = "number" => iq.outcome = Fulfilled(usd)

\* the series of the response getCryptoPriceHistory read
SourceSeries == calls[1].result.body.prices

C10_WitnessInvalid ==
    /\ hist.status = "settled"
    /\ calls[1].pc = "returned"
    /\ SourceSeries = Obj
    /\ hist.outcome = HistoryRejected(InvalidHistoryError)

(***************************************************************************)
(* Claims about the figures of the portfolio tracker (SpecTracker).        *)
(***************************************************************************)
RECURSIVE QuantityHeld(_, _)
\* the quantities of the positions in one asset, added up
QuantityHeld(items, asset) ==
    IF items = <<>> THEN 0
    ELSE QuantityHeld(Tail(items), asset)
         + (IF Head(items).cryptoId = asset THEN Head(items).amount ELSE 0)

RECURSIVE CostBases(_)
CostBases(items) ==
    IF items = <<>> THEN 0 ELSE Head(items).initialInvestment + CostBases(Tail(items))

\* the price of an asset in the resolved data, 0 when absent
PriceOrZero(asset) ==
    IF batch.data[asset] = Undefined THEN 0 ELSE batch.data[asset].n

RECURSIVE ValueOfAssets(_)
ValueOfAssets(assets) ==
    IF assets = {} THEN 0
    ELSE LET a == CHOOSE x \in assets : TRUE
         IN  PriceOrZero(a) * QuantityHeld(portfolio, a) + ValueOfAssets(assets \ {a})

\* C11: for any positions and any, possibly partial, price map the rendered
\* totalValue is the sum over the positions of price (0 when absent) times
\* quantity, so that several positions in one asset each count with their own
\* quantity; totalInvestment is the sum of the cost bases; totalProfit is
\* totalValue minus totalInvestment.
C11_Totals ==
    /\ view.totalValue = ValueOfAssets(Assets)
    /\ view.totalInvestment = CostBases(portfolio)
    /\ view.totalProfit = view.totalValue - view.totalInvestment

\* two positions in bitcoin, priced, next to nothing else
C11_Witness ==
    /\ Len(portfolio) = 2
    /\ \A n \in 1..2 : portfolio[n].cryptoId = "bitcoin" /\ portfolio[n].amount = 2
    /\ batch.data["bitcoin"] = Num(6000)
    /\ view.totalValue = 24000
    /\ view.totalProfit = 24000 - view.totalInvestment

\* the fraction x is the exact quotient 100 * num / den, den > 0
IsPercentOf(x, num, den) ==
    /\ x.k = "finite"
    /\ x.d > 0
    /\ den % x.d = 0
    /\ x.n * (den \div x.d) = 100 * num

\* C12: the aggregate profitPercentage is 0 whenever totalInvestment is 0,
\* whatever totalValue is; it is (totalProfit / totalInvestment) * 100 whenever
\* totalInvestment > 0; it is never the result of a division by zero.
C12_AggregateGuard ==
    /\ view.totalInvestment = 0 => view.profitPercentage = Zero
    /\ view.totalInvestment > 0 =>
          IsPercentOf(view.profitPercentage, view.totalProfit, view.totalInvestment)
    /\ view.profitPercentage.k = "finite"

\* nothing invested, yet the positions are worth something
C12_Witness ==
    /\ view.totalInvestment = 0
    /\ view.totalValue > 0
    /\ view.profitPercentage = Zero

\* something invested and a profit made
C12_WitnessInvested ==
    /\ view.totalInvestment > 0
    /\ view.totalProfit > 0
    /\ view.profitPercentage = Ratio(20, 1)

\* C13: the per-position profitPercentage has the guard of the aggregate: for
\* a position whose cost basis is 0 it is 0 and nothing is divided by zero;
\* for a cost basis > 0 it is (profit / costBasis) * 100.
C13_RowGuard ==
    \A n \in 1..Len(portfolio) :
        /\ portfolio[n].initialInvestment = 0 => view.rows[n].profitPercentage = Zero
        /\ portfolio[n].initialInvestment > 0 =>
              IsPercentOf(view.rows[n].profitPercentage, view.rows[n].profit,
                          portfolio[n].initialInvestment)
        /\ view.rows[n].profitPercentage.k = "finite"

\* C14: a position of quantity 0 is rejected at input time: every position
\* the tracker holds has quantity > 0 and cost basis >= 0, so purchasePrice is
\* never a division by a quantity of 0.
C14_QuantityPositive ==
    \A n \in 1..Len(portfolio) :
        /\ portfolio[n].amount > 0
        /\ portfolio[n].initialInvestment >= 0
        /\ view.rows[n].purchasePrice.k = "finite"

\* the fraction x is the exact quotient num / den, den > 0
IsQuotient(x, num, den) ==
    /\ x.k = "finite"
    /\ x.d > 0
    /\ den % x.d = 0
    /\ x.n * (den \div x.d) = num

\* the position of the scenario at the spot price of the scenario
Scenario(n) ==
    /\ portfolio[n].cryptoId = "bitcoin"
    /\ portfolio[n].amount = 2
    /\ portfolio[n].initialInvestment = 10000
    /\ batch.data["bitcoin"] = Num(6000)

\* C15: for a position of quantity q > 0, cost basis c >= 0 and spot price p
\* the row shows purchasePrice = c / q, currentValue = p * q and
\* profit = p * q - c exactly; bitcoin, quantity 2, cost basis 10000 at spot
\* price 6000 gives 5000, 12000, 2000 and a profitPercentage of 20.
C15_RowFigures ==
    \A n \in 1..Len(portfolio) :
        LET q == portfolio[n].amount
            c == portfolio[n].initialInvestment
            p == PriceOrZero(portfolio[n].cryptoId)
            row == view.rows[n]
        IN  /\ (q > 0 /\ c >= 0) =>
                  /\ IsQuotient(row.purchasePrice, c, q)
                  /\ row.currentValue = p * q
                  /\ row.profit = p * q - c
            /\ Scenario(n) =>
                  /\ row.purchasePrice = Ratio(5000, 1)
                  /\ row.currentValue = 12000
                  /\ row.profit = 2000
                  /\ row.profitPercentage = Ratio(20, 1)

\* the scenario, rendered
C15_Witness ==
    \E n \in 1..Len(portfolio) :
        /\ Scenario(n)
        /\ view.rows[n].purchasePrice = Ratio(5000, 1)
        /\ view.rows[n].profit = 2000

(***************************************************************************)
(* Claims about the risk score and the digest items (SpecSnapshot).        *)
(***************************************************************************)
Scored == snap.risk.state = "returned"
Digested == snap.news.state = "fulfilled"

\* C16: calculateRiskScore returns a score between 0 and 100 inclusive for
\* every snapshot, extreme percentage changes, a zero or negative market cap
\* and a zero volume included.
C16_ScoreInRange ==
    Scored => snap.risk.score >= 0 /\ snap.risk.score <= 100

\* a fall of 1000% with a negative market cap and no volume, scored
C16_Witness ==
    /\ Scored
    /\ snap.market_data.price_change_percentage_24h = Num(0 - Percent(1000, 0))
    /\ snap.market_data.market_cap = Num(0 - 1000000000)
    /\ snap.market_data.total_volume = Num(0)
    /\ snap.risk.score = 60

\* every field of the snapshot is a number
Numeric(marketData) ==
    /\ marketData.price_change_percentage_24h.t = "number"
    /\ marketData.price_change_percentage_7d.t = "number"
    /\ marketData.total_volume.t = "number"
    /\ marketData.market_cap.t = "number"

\* the snapshot {change24h 12, change7d -3, marketCap 2e9, volume 3e8}
ScenarioSnapshot ==
    snap.market_data = MarketData(Num(Percent(12, 0)), Num(0 - Percent(3, 0)),
                                  Num(300000000), Num(2000000000))

Delta24h == IF Abs(snap.market_data.price_change_percentage_24h.n) > Percent(10, 0)
            THEN 0 - 10 ELSE 0
Delta7d == IF snap.market_data.price_change_percentage_7d.n > 0 THEN 5 ELSE 0 - 5
DeltaCap == IF snap.market_data.market_cap.n > 1000000000 THEN 10 ELSE 0
DeltaVolume ==
    IF snap.market_data.total_volume.n > snap.market_data.market_cap.n \div 10
    THEN 5 ELSE 0
Clamp(x) == IF x < 0 THEN 0 ELSE IF x > 100 THEN 100 ELSE x
Tag(positive, otherwise) == IF positive THEN "positive" ELSE otherwise

\* C17: the score is clamp(70 + d24 + d7 + dCap + dVol, 0, 100) with
\* d24 = -10 if |24h change| > 10 else 0, d7 = +5 if the 7d change > 0 else -5,
\* dCap = +10 if the market cap > 1,000,000,000 else 0, dVol = +5 if the volume
\* > 10% of the market cap else 0; the factors come in that order, the two
\* changes tagged positive if > 0 else negative, market cap and volume tagged
\* positive when their delta applies else neutral; the scenario snapshot has
\* the deltas -10, -5, +10, +5 and the score 70.
C17_ScoreFormula ==
    (Scored /\ Numeric(snap.market_data)) =>
        /\ snap.risk.score = Clamp(70 + Delta24h + Delta7d + DeltaCap + DeltaVolume)
        /\ [n \in 1..4 |-> snap.risk.factors[n].factor]
              = <<"24h Price Change", "Weekly Trend", "Market Cap", "Trading Volume">>
        /\ [n \in 1..4 |-> snap.risk.factors[n].impact]
              = << Tag(snap.market_data.price_change_percentage_24h.n > 0, "negative"),
                   Tag(snap.market_data.price_change_percentage_7d.n > 0, "negative"),
                   Tag(DeltaCap = 10, "neutral"),
                   Tag(DeltaVolume = 5, "neutral") >>
        /\ ScenarioSnapshot =>
              /\ <<Delta24h, Delta7d, DeltaCap, DeltaVolume>> = <<0 - 10, 0 - 5, 10, 5>>
              /\ snap.risk.score = 70

\* the scenario snapshot, scored
C17_Witness ==
    /\ Scored
    /\ ScenarioSnapshot
    /\ snap.risk.score = 70
    /\ snap.risk.factors[4].impact = "positive"

\* a JSON value is a well-formed number
WellFormed(v) == v.t = "number"

\* the items the four fields call for, in the fixed order
ExpectedAbout ==
    (IF WellFormed(snap.market_data.price_change_percentage_24h) THEN <<"24h">> ELSE <<>>)
    \o (IF WellFormed(snap.market_data.price_change_percentage_7d) THEN <<"7d">> ELSE <<>>)
    \o (IF WellFormed(snap.market_data.total_volume) THEN <<"volume">> ELSE <<>>)
    \o (IF WellFormed(snap.market_data.market_cap) THEN <<"market cap">> ELSE <<>>)

\* C18: the news generator emits at most four items in the order 24h move,
\* 7d move, trading volume, market capitalization; the item of a field is
\* emitted if and only if the field is a well-formed number, the value 0
\* included; the same snapshot always yields the same items.
C18_ItemPerWellFormedField ==
    Digested =>
        /\ Len(snap.news.items) <= 4
        /\ [n \in 1..Len(snap.news.items) |-> snap.news.items[n].about] = ExpectedAbout
        /\ snap.news.items = news(snap.market_data)

\* C19: the direction word of a price-move item follows the sign of its
\* percentage (gains or rises when positive, drops or falls when negative) and
\* agrees with the positive/negative tag calculateRiskScore gives the same
\* percentage of the same snapshot, for every value, 0 included.
C19_DirectionAgreesWithTag ==
    (Digested /\ Scored) =>
        \A n \in 1..Len(snap.news.items) :
            LET item == snap.news.items[n]
                change == IF item.about = "24h"
                          THEN snap.market_data.price_change_percentage_24h
                          ELSE snap.market_data.price_change_percentage_7d
                tag == IF item.about = "24h" THEN snap.risk.factors[1].impact
                       ELSE snap.risk.factors[2].impact
            IN  item.about \in {"24h", "7d"} =>
                    /\ change.n > 0 => item.word \in {"gains", "rises"}
                    /\ change.n < 0 => item.word \in {"drops", "falls"}
                    /\ item.word \in {"gains", "rises"} <=> tag = "positive"

\* C20 as stated: the scenario snapshot yields exactly 4 items, headline 1
\* says "drops 12.00%" and headline 2 says "falls 3.00%".
C20_Original ==
    (Digested /\ ScenarioSnapshot) =>
        /\ Len(snap.news.items) = 4
        /\ snap.news.items[1].word = "drops"
        /\ snap.news.items[1].amount = Fixed(FALSE, FALSE, 12, 0)
        /\ snap.news.items[2].word = "falls"
        /\ snap.news.items[2].amount = Fixed(FALSE, FALSE, 3, 0)

\* C20: the scenario snapshot yields exactly 4 items; its 24h change is +12,
\* so headline 1 says "gains 12.00%"; headline 2 says "falls 3.00%".
C20_ScenarioHeadlines ==
    (Digested /\ ScenarioSnapshot) =>
        /\ Len(snap.news.items) = 4
        /\ snap.news.items[1].word = "gains"
        /\ snap.news.items[1].amount = Fixed(FALSE, FALSE, 12, 0)
        /\ snap.news.items[2].word = "falls"
        /\ snap.news.items[2].amount = Fixed(FALSE, FALSE, 3, 0)

\* the scenario snapshot, digested
C20_Witness ==
    /\ Digested
    /\ ScenarioSnapshot
    /\ Len(snap.news.items) = 4
    /\ snap.news.items[1].about = "24h"

(***************************************************************************)
(* Claims about termination and reachable values.                          *)
(***************************************************************************)
RECURSIVE AllAtMost(_, _)
AllAtMost(q, limit) ==
    q = <<>> \/ (Head(q) <= limit /\ AllAtMost(Tail(q), limit))

\* the requests and waits of the call stay within its attempts argument
WithinBudget ==
    /\ TheCall.attempts >= 1 =>
          /\ TheCall.requests <= TheCall.attempts
          /\ Len(TheCall.waits) <= TheCall.attempts
    /\ AllAtMost(TheCall.waits, 30000)
    /\ (TheCall.pc # "idle" /\ TheCall.attempts <= 0) =>
          /\ TheCall.pc = "failed"
          /\ TheCall.requests = 0
          /\ TheCall.waits = <<>>
          /\ TheCall.error = MaxRetryError

\* C21: whatever the upstream answers, a call fetchWithRetry(url, attempts)
\* ends, returned or failed, after at most attempts requests and at most
\* attempts waits of at most 30000 ms each; with attempts <= 0 it issues no
\* request and fails with the generic error.
C21_TerminatesWithinBudget ==
    /\ []WithinBudget
    /\ (TheCall.pc # "idle") ~> Ended(TheCall)

\* seven attempts all rate limited: seven requests, seven waits, the last
\* ones capped
C21_Witness ==
    /\ TheCall.pc = "failed"
    /\ TheCall.attempts = 7
    /\ TheCall.requests = 7
    /\ Len(TheCall.waits) = 7
    /\ TheCall.waits[6] = 30000 /\ TheCall.waits[7] = 30000

\* a call with no attempts
C21_WitnessNoAttempts ==
    /\ TheCall.pc = "failed"
    /\ TheCall.attempts <= 0
    /\ TheCall.requests = 0
    /\ TheCall.error = MaxRetryError

\* 70 + the sum of the four deltas, before Math.min and Math.max
UnclampedTotal == 70 + Delta24h + Delta7d + DeltaCap + DeltaVolume

\* C22: the clamp of calculateRiskScore is never active: for every snapshot
\* with numeric fields the total 70 + deltas lies between 55 and 90, so the
\* returned score is that total, a value in 55..90; the scores 0..54 and
\* 91..100 are never returned.
C22_ClampNeverActive ==
    (Scored /\ Numeric(snap.market_data)) =>
        /\ UnclampedTotal >= 55 /\ UnclampedTotal <= 90
        /\ snap.risk.score = UnclampedTotal
        /\ snap.risk.score \in 55..90
        /\ snap.risk.score \notin (0..54) \cup (91..100)

\* the highest total: a calm day, a rising week, a large cap, a high volume
C22_Witness ==
    /\ Scored
    /\ Numeric(snap.market_data)
    /\ UnclampedTotal = 90
    /\ snap.risk.score = 90

\* the lowest total
C22_WitnessLowest ==
    /\ Scored
    /\ Numeric(snap.market_data)
    /\ UnclampedTotal = 55
    /\ snap.risk.score = 55

(***************************************************************************)
(* Claims about the portfolio routes (SpecApi).                            *)
(***************************************************************************)
\* the rows of user u in a table
RowsOf(items, u) == {item \in items : item.userId = u}

\* one request, answered by server'.reply, against the table before and after
ScopedStep ==
    LET req == server'.reply
        before == server.portfolioItems
        after == server'.portfolioItems
    IN  /\ ~req.user.present => req.status = 401 /\ after = before
        /\ req.method = "POST" =>
              /\ before \subseteq after
              /\ Cardinality(after \ before) <= 1
              /\ \A item \in after \ before :
                    /\ req.user.present /\ item.userId = req.user.id
                    /\ req.items = {item}
        /\ req.method = "DELETE" =>
              /\ after \subseteq before
              /\ \A item \in before \ after :
                    /\ req.user.present /\ item.userId = req.user.id
                    /\ item.id = parseInt(req.param).n
        /\ req.method = "GET" =>
              /\ after = before
              /\ req.user.present => req.items = RowsOf(before, req.user.id)
        /\ \A u \in Users :
              (~req.user.present \/ u # req.user.id) => RowsOf(after, u) = RowsOf(before, u)
        /\ \A item \in before :
              item \in after \/ \A other \in after : other.id # item.id

\* C23: the rows are scoped per user under any sequence of requests: without
\* an authenticated user every route answers 401 and changes nothing; POST
\* stores the new row under the requester's id whatever the body says; DELETE
\* removes only a row with the given id owned by the requester; GET returns
\* only the requester's rows; no route modifies a row, so the rows of a user
\* change only by that user's own POST and DELETE.
C23_RowsScopedPerUser == [][ScopedStep]_vars

\* user 1 posts a body that names user 2 as the owner, next to a row of user 2
C23_Witness ==
    /\ server.reply.method = "POST"
    /\ server.reply.user = User(1)
    /\ server.reply.body.userId = 2
    /\ server.reply.status = 200
    /\ \E item \in server.reply.items : item.userId = 1 /\ item \in server.portfolioItems
    /\ RowsOf(server.portfolioItems, 2) # {}

\* user 1 asks to delete the row of user 2: answered, the row stays
C23_WitnessForeignDelete ==
    /\ server.reply.method = "DELETE"
    /\ server.reply.user = User(1)
    /\ server.reply.status = 200
    /\ \E item \in server.portfolioItems :
          item.userId = 2 /\ item.id = parseInt(server.reply.param).n

====
